---------------------------- MODULE Spec2Model ----------------------------
(***************************************************************************)
(* Model of ncaapushit.go: a release utility that bumps and tags a module  *)
(* repository in a background goroutine (tagVersion) while the main        *)
(* goroutine rewrites, commits and pushes the site makefile.               *)
(*                                                                         *)
(* Strings are TLA+ strings; the helpers of Go's strings and strconv       *)
(* packages that the program uses are defined on them character by         *)
(* character.                                                              *)
(***************************************************************************)
EXTENDS Integers, Sequences, FiniteSets, TLC

(***************************************************************************)
(* Bounds of the model.                                                    *)
(***************************************************************************)
\* version columns of the tags fed to the version resolver range over 0..MaxCol
MaxCol == 10
\* manifests fed to the makefile rewriter have at most MaxLines lines
MaxLines == 3

(***************************************************************************)
(* strings / strconv                                                       *)
(***************************************************************************)
Char(s, i) == SubSeq(s, i, i)

Drop(s, n) == SubSeq(s, n + 1, Len(s))

Take(s, n) == SubSeq(s, 1, n)

\* does the cutset contain the one-character string c
InCutset(c, cutset) == \E i \in 1..Len(cutset) : Char(cutset, i) = c

RECURSIVE TrimLeft(_, _)
TrimLeft(s, cutset) ==
    IF Len(s) > 0 /\ InCutset(Char(s, 1), cutset)
    THEN TrimLeft(Drop(s, 1), cutset)
    ELSE s

RECURSIVE TrimRight(_, _)
TrimRight(s, cutset) ==
    IF Len(s) > 0 /\ InCutset(Char(s, Len(s)), cutset)
    THEN TrimRight(Take(s, Len(s) - 1), cutset)
    ELSE s

\* strings.Trim(s, cutset)
Trim(s, cutset) == TrimRight(TrimLeft(s, cutset), cutset)

\* strings.Index(s, sub), 1-based; 0 when sub does not occur in s
Index(s, sub) ==
    LET hits == {i \in 1..(Len(s) - Len(sub) + 1) : SubSeq(s, i, i + Len(sub) - 1) = sub}
    IN  IF hits = {} THEN 0 ELSE CHOOSE i \in hits : \A j \in hits : i <= j

\* strings.Contains(s, sub)
Contains(s, sub) == Len(sub) = 0 \/ Index(s, sub) > 0

RECURSIVE Intersperse(_, _)
\* new before every character of s (the old = "" case of strings.Replace)
Intersperse(s, new) ==
    IF Len(s) = 0 THEN "" ELSE new \o Char(s, 1) \o Intersperse(Drop(s, 1), new)

RECURSIVE ReplaceNonEmpty(_, _, _)
ReplaceNonEmpty(s, old, new) ==
    LET i == Index(s, old)
    IN  IF i = 0 THEN s
        ELSE Take(s, i - 1) \o new \o ReplaceNonEmpty(Drop(s, i - 1 + Len(old)), old, new)

\* strings.Replace(s, old, new, -1): every non-overlapping occurrence, left to right
Replace(s, old, new) ==
    IF Len(old) = 0 THEN Intersperse(s, new) \o new ELSE ReplaceNonEmpty(s, old, new)

RECURSIVE Split(_, _)
\* strings.Split(s, sep) for a non-empty sep
Split(s, sep) ==
    LET i == Index(s, sep)
    IN  IF i = 0 THEN <<s>>
        ELSE <<Take(s, i - 1)>> \o Split(Drop(s, i - 1 + Len(sep)), sep)

RECURSIVE Join(_, _)
\* strings.Join(elems, sep)
Join(elems, sep) ==
    IF Len(elems) = 0 THEN ""
    ELSE IF Len(elems) = 1 THEN elems[1]
    ELSE elems[1] \o sep \o Join(Tail(elems), sep)

Digits == "0123456789"

IsDigit(c) == InCutset(c, Digits)

DigitVal(c) == Index(Digits, c) - 1

AllDigits(s) == Len(s) > 0 /\ \A i \in 1..Len(s) : IsDigit(Char(s, i))

RECURSIVE DigitsVal(_)
DigitsVal(s) ==
    IF Len(s) = 0 THEN 0
    ELSE 10 * DigitsVal(Take(s, Len(s) - 1)) + DigitVal(Char(s, Len(s)))

\* the string without one leading sign
Unsigned(s) == IF Len(s) > 0 /\ Char(s, 1) \in {"+", "-"} THEN Drop(s, 1) ELSE s

\* strconv.Atoi succeeds: an optional sign followed by decimal digits
AtoiOk(s) == AllDigits(Unsigned(s))

\* the value strconv.Atoi returns; 0 goes with a syntax error
\* (the columns of the model stay far below the range of int, so no range error)
Atoi(s) ==
    IF ~AtoiOk(s) THEN 0
    ELSE IF Char(s, 1) = "-" THEN 0 - DigitsVal(Unsigned(s))
    ELSE DigitsVal(Unsigned(s))

RECURSIVE ItoaNat(_)
ItoaNat(n) ==
    IF n < 10 THEN Char(Digits, n + 1)
    ELSE ItoaNat(n \div 10) \o Char(Digits, (n % 10) + 1)

\* strconv.Itoa
Itoa(n) == IF n < 0 THEN "-" \o ItoaNat(0 - n) ELSE ItoaNat(n)


(***************************************************************************)
(* Program constants and the pure parts of the program                     *)
(***************************************************************************)
\* gitCommands (gitc values are argument lists)
gitCommands ==
    [update   |-> <<"up">>,
     branch   |-> <<"rev-parse", "--abbrev-ref", "HEAD">>,
     latest   |-> <<"describe", "master", "--abbrev=0", "--tags">>,
     coMaster |-> <<"checkout", "master">>,
     pushit   |-> <<"push", "origin", "master">>,
     pushtags |-> <<"push", "origin", "--tags">>]

\* getVersions: the branch/topic check returns an error
TopicErrorFlipped(currentBranch, topic) ==
    \/ currentBranch = "master" /\ topic = ""
    \/ topic # "" /\ currentBranch # topic /\ currentBranch = "master"

TopicError(currentBranch, topic) ==
    \/ currentBranch = "master" /\ topic = ""
    \/ topic # "" /\ currentBranch # topic /\ currentBranch # "master"

\* getVersions: topicOpt after "if no topic was supplied, store the current branch"
ResolvedTopic(currentBranch, topic) == IF topic = "" THEN currentBranch ELSE topic

\* getVersions: latest, from the output of the latest-tag query
LatestOf(gitVer) == Trim(Drop(gitVer, 1), " \n\t")

BumpPanicsAnyBump(bump, splitVersion) ==
    Len(splitVersion) < 3

\* getVersions: the switch indexes splitVersion out of range (a run-time panic)
BumpPanics(bump, splitVersion) ==
    bump \in {"major", "minor", "patch"} /\ Len(splitVersion) < 3

BumpNoReset(bump, splitVersion) ==
    CASE bump = "major" -> [splitVersion EXCEPT ![1] = Itoa(Atoi(splitVersion[1]) + 1)]
      [] bump = "minor" -> [splitVersion EXCEPT ![2] = Itoa(Atoi(splitVersion[2]) + 1)]
      [] bump = "patch" -> [splitVersion EXCEPT ![3] = Itoa(Atoi(splitVersion[3]) + 1)]
      [] OTHER -> splitVersion

\* getVersions: the switch on bumpOpt, applied to splitVersion
Bump(bump, splitVersion) ==
    CASE bump = "major" ->
            [splitVersion EXCEPT ![1] = Itoa(Atoi(splitVersion[1]) + 1),
                                 ![2] = "0", ![3] = "0"]
      [] bump = "minor" ->
            [splitVersion EXCEPT ![2] = Itoa(Atoi(splitVersion[2]) + 1), ![3] = "0"]
      [] bump = "patch" ->
            [splitVersion EXCEPT ![3] = Itoa(Atoi(splitVersion[3]) + 1)]
      [] OTHER -> splitVersion

\* getVersions: the new version string returned for a latest version string
NewVersionOf(bump, latest) == Join(Bump(bump, Split(latest, ".")), ".")

\* bufio.Scanner with the default split function: the lines of a file
ScanLines(content) ==
    LET parts == Split(content, "\n")
        kept  == IF parts[Len(parts)] = "" THEN SubSeq(parts, 1, Len(parts) - 1) ELSE parts
    IN  [i \in 1..Len(kept) |->
            IF Len(kept[i]) > 0 /\ Char(kept[i], Len(kept[i])) = "\r"
            THEN Take(kept[i], Len(kept[i]) - 1)
            ELSE kept[i]]

\* getUpdatedMakefile: seekLine
SeekLine(module, latest) ==
    "projects[" \o module \o "][download][tag] = \"v" \o latest \o "\""

UpdatedLinesAnyModule(lines, module, newVersion, latest) ==
    [i \in 1..Len(lines) |->
        IF Contains(lines[i], "[download][tag] = \"v" \o latest \o "\"")
        THEN Replace(lines[i], Trim(latest, "\n\t "), newVersion)
        ELSE lines[i]]

\* getUpdatedMakefile: outFile, built line by line by the scanner loop
UpdatedLines(lines, module, newVersion, latest) ==
    [i \in 1..Len(lines) |->
        IF Contains(lines[i], SeekLine(module, latest))
        THEN Replace(lines[i], Trim(latest, "\n\t "), newVersion)
        ELSE lines[i]]

\* getUpdatedMakefile: replacedVersion after the loop
ReplacedVersion(lines, module, latest) ==
    \E i \in 1..Len(lines) : Contains(lines[i], SeekLine(module, latest))

CommitMsgOldVersion(topic, module, newVersion) ==
    "\n" \o topic \o " " \o module \o " -> " \o Join(Split(newVersion, "."), "")

\* main: commitMsg
CommitMsg(topic, module, newVersion) ==
    "\n" \o topic \o " " \o module \o " -> " \o newVersion

\* getModule: the module name is the last element of the path
ModuleName(path) == LET parts == Split(path, "/") IN parts[Len(parts)]

\* bufio.Reader.ReadString('\n'): up to and including the first newline
ReadString(input) ==
    LET i == Index(input, "\n") IN IF i = 0 THEN input ELSE Take(input, i)

(***************************************************************************)
(* The environment the program runs in                                     *)
(***************************************************************************)
ModuleDir == "/w/foo"

ParentDir == "/w"

\* siteRepoOpt and siteMakeOpt after flag.Parse and applyEnvOptions
siteRepoOpt == "/w/site"

siteMakeOpt == "barcelona.make"

\* values of --bump, --topic and --module on the command line
BumpOpts == {"major", "minor", "patch", "build"}

TopicOpts == {"", "master", "NCAA-5", "NCAA-9"}

ModuleOpts == {"$PWD", ModuleDir}

\* branches the module repository may be checked out to when the run starts
Branches == {"master", "NCAA-5"}

\* what ioutil.ReadDir may find: an error, or the names in the directory
Unreadable == [readErr |-> TRUE, names |-> {}]

Dir(names) == [readErr |-> FALSE, names |-> names]

ModuleListings == {Unreadable, Dir({"foo.module", "README.md"}), Dir({"README.md"})}

SiteListings == {Unreadable, Dir({siteMakeOpt, "README.md"}), Dir({"README.md"})}

\* outputs of the latest-tag query in a run of the whole program
TagOutputs == {"v1.2.3\n", "v0.9\n"}

\* contents of the site makefile in a run of the whole program
Manifests ==
    {"core = 7.x\nprojects[foo][download][tag] = \"v1.2.3\"\nprojects[bar][download][tag] = \"v1.2.3\"\n",
     "core = 7.x\nprojects[foo][download][tag] = \"v1.2.2\"\n",
     "projects[foo][download][tag] = \"v1.2.3\"\n; projects[foo][download][tag] = \"v1.2.3\"\n"}

\* what the operator may type at the prompt
StdinInputs == {"y\n", "n\n", "\n", "yes\n", "Y\n", "y", " y\n", "y\r\n", ""}

Tasks == {"main", "bg"}

NoCall == [cmd |-> <<>>, dir |-> "", in |-> ""]

(***************************************************************************)
(* State                                                                   *)
(***************************************************************************)
VARIABLES
    bumpOpt,        \* --bump
    moduleOpt,      \* --module
    topicFlag,      \* --topic as given on the command line
    topicOpt,       \* the package variable topicOpt; getVersions may store the branch in it
    cwd,            \* the package variable cwd: the module directory
    procDir,        \* the working directory of the process (os.Chdir, os.Getwd)
    modHead,        \* the branch the module repository is checked out to
    siteFile,       \* content of the site makefile on disk once the run touched it
    mainPc,         \* position of the main goroutine
    bgPc,           \* position of the goroutine running tagVersion
    phase,          \* per goroutine, inside git(): "idle", "chdir" (after os.Chdir), "exec"
    inflight,       \* per goroutine, the command its git() call is running
    ran,            \* commands started: [by, cmd, dir, in], in = directory the child ran in
    finished,       \* commands that returned without error
    failed,         \* commands that returned an error
    crashed,        \* the process died of a panic
    out,            \* main: bytes returned by its last git() call
    currentBranch,  \* getVersions: currentBranch
    module,         \* main: module
    makefile,       \* main: makefile
    latest,         \* main: latest
    newVersion,     \* main: newVersion
    outFile,        \* main: outFile
    commitMsg,      \* main: commitMsg
    err,            \* main: the pushError printed before returning, "" if none
    text,           \* main: the trimmed line read from stdin
    sent,           \* values sent on taggingComplete
    received,       \* values received from taggingComplete
    arg,            \* input of the function under study (function specifications)
    res             \* its result

optVars == <<bumpOpt, moduleOpt, topicFlag>>

gitVars == <<phase, inflight, ran, finished, failed>>

localVars == <<out, currentBranch, module, makefile, latest, newVersion, outFile, commitMsg, text>>

chanVars == <<sent, received>>

fnVars == <<arg, res>>

vars == <<bumpOpt, moduleOpt, topicFlag, topicOpt, cwd, procDir, modHead, siteFile, mainPc, bgPc,
          phase, inflight, ran, finished, failed, crashed, out, currentBranch, module,
          makefile, latest, newVersion, outFile, commitMsg, err, text, sent, received, arg, res>>

\* everything but the flags, the directories and the repository: the state of main at entry
AtEntry ==
    /\ cwd = ""
    /\ siteFile = ""
    /\ mainPc = "getModule"
    /\ bgPc = "none"
    /\ phase = [t \in Tasks |-> "idle"]
    /\ inflight = [t \in Tasks |-> NoCall]
    /\ ran = {}
    /\ finished = {}
    /\ failed = {}
    /\ crashed = FALSE
    /\ out = ""
    /\ currentBranch = ""
    /\ module = ""
    /\ makefile = ""
    /\ latest = ""
    /\ newVersion = ""
    /\ outFile = <<>>
    /\ commitMsg = ""
    /\ err = ""
    /\ text = ""
    /\ sent = 0
    /\ received = 0

Init ==
    /\ bumpOpt \in BumpOpts
    /\ moduleOpt \in ModuleOpts
    /\ topicFlag \in TopicOpts
    /\ topicOpt = topicFlag
    /\ procDir \in {ModuleDir, ParentDir}
    /\ modHead \in Branches
    /\ AtEntry
    /\ arg = <<>>
    /\ res = <<>>

(***************************************************************************)
(* The run of the program                                                  *)
(***************************************************************************)
Terminal == {"Published", "Aborted", "Failed"}

\* the process exists: no panic yet and main has not returned
Alive == ~crashed /\ mainPc \notin Terminal

Pc(t) == IF t = "main" THEN mainPc ELSE bgPc

Listings(dir) ==
    IF dir = ModuleDir THEN ModuleListings ELSE {Unreadable, Dir({"foo", "site"})}

getModuleIgnoresError ==
    /\ Alive
    /\ mainPc = "getModule"
    /\ LET dir == IF moduleOpt = "$PWD" THEN procDir ELSE moduleOpt
       IN  /\ cwd' = dir
           /\ \E files \in Listings(dir) :
                IF files.readErr
                THEN /\ err' = "readModuleDir"
                     /\ mainPc' = "getMakefile"
                     /\ UNCHANGED <<procDir, module>>
                ELSE /\ procDir' = IF moduleOpt # "$PWD" THEN dir ELSE procDir
                     /\ IF (ModuleName(dir) \o ".module") \in files.names
                        THEN /\ module' = ModuleName(dir)
                             /\ mainPc' = "getMakefile"
                             /\ UNCHANGED err
                        ELSE /\ err' = "moduleNotFound"
                             /\ mainPc' = "getMakefile"
                             /\ UNCHANGED module
    /\ UNCHANGED <<optVars, topicOpt, modHead, siteFile, bgPc, gitVars, crashed, out,
                   currentBranch, makefile, latest, newVersion, outFile, commitMsg, text, chanVars, fnVars>>

\* getModule
getModule ==
    /\ Alive
    /\ mainPc = "getModule"
    /\ LET dir == IF moduleOpt = "$PWD" THEN procDir ELSE moduleOpt
       IN  /\ cwd' = dir
           /\ \E files \in Listings(dir) :
                IF files.readErr
                THEN /\ err' = "readModuleDir"
                     /\ mainPc' = "Failed"
                     /\ UNCHANGED <<procDir, module>>
                ELSE /\ procDir' = IF moduleOpt # "$PWD" THEN dir ELSE procDir
                     /\ IF (ModuleName(dir) \o ".module") \in files.names
                        THEN /\ module' = ModuleName(dir)
                             /\ mainPc' = "getMakefile"
                             /\ UNCHANGED err
                        ELSE /\ err' = "moduleNotFound"
                             /\ mainPc' = "Failed"
                             /\ UNCHANGED module
    /\ UNCHANGED <<optVars, topicOpt, modHead, siteFile, bgPc, gitVars, crashed, out,
                   currentBranch, makefile, latest, newVersion, outFile, commitMsg, text, chanVars, fnVars>>

\* getMakefile
getMakefile ==
    /\ Alive
    /\ mainPc = "getMakefile"
    /\ \E files \in SiteListings :
         IF files.readErr
         THEN /\ err' = "readSiteDir"
              /\ mainPc' = "Failed"
              /\ UNCHANGED makefile
         ELSE IF siteMakeOpt \in files.names
              THEN /\ makefile' = siteRepoOpt \o "/" \o siteMakeOpt
                   /\ mainPc' = "gv_update"
                   /\ UNCHANGED err
              ELSE /\ err' = "makefileNotFound"
                   /\ mainPc' = "Failed"
                   /\ UNCHANGED makefile
    /\ UNCHANGED <<optVars, topicOpt, cwd, procDir, modHead, siteFile, bgPc, gitVars,
                   crashed, out, currentBranch, module, latest, newVersion, outFile, commitMsg, text,
                   chanVars, fnVars>>

\* the positions at which a goroutine calls git(), with the call's arguments
GitCalls ==
    [gv_update   |-> [cmd |-> gitCommands.update, dir |-> cwd],
     gv_branch   |-> [cmd |-> gitCommands.branch, dir |-> cwd],
     gv_latest   |-> [cmd |-> gitCommands.latest, dir |-> cwd],
     pm_update   |-> [cmd |-> gitCommands.update, dir |-> siteRepoOpt],
     pm_coMaster |-> [cmd |-> gitCommands.coMaster, dir |-> siteRepoOpt],
     pm_commit   |-> [cmd |-> <<"commit", siteMakeOpt, "-m", commitMsg>>, dir |-> siteRepoOpt],
     pm_pushit   |-> [cmd |-> gitCommands.pushit, dir |-> siteRepoOpt],
     tv_coMaster |-> [cmd |-> gitCommands.coMaster, dir |-> cwd],
     tv_branchD  |-> [cmd |-> <<"branch", "-d", topicOpt>>, dir |-> cwd],
     tv_tag      |-> [cmd |-> <<"tag", "v" \o newVersion>>, dir |-> cwd],
     tv_pushtags |-> [cmd |-> gitCommands.pushtags, dir |-> cwd]]

GitPcs == DOMAIN GitCalls

AfterGitSkipCheckout ==
    [gv_update   |-> "gv_branch",
     gv_branch   |-> "gv_validate",
     gv_latest   |-> "gv_bump",
     pm_update   |-> "pm_write",
     pm_coMaster |-> "pm_write",
     pm_commit   |-> "pm_wait",
     pm_pushit   |-> "Published",
     tv_coMaster |-> "tv_branchD",
     tv_branchD  |-> "tv_tag",
     tv_tag      |-> "tv_pushtags",
     tv_pushtags |-> "tv_send"]

AfterGitNoSend ==
    [gv_update   |-> "gv_branch",
     gv_branch   |-> "gv_validate",
     gv_latest   |-> "gv_bump",
     pm_update   |-> "pm_coMaster",
     pm_coMaster |-> "pm_write",
     pm_commit   |-> "pm_wait",
     pm_pushit   |-> "Published",
     tv_coMaster |-> "tv_branchD",
     tv_branchD  |-> "tv_tag",
     tv_tag      |-> "tv_pushtags",
     tv_pushtags |-> "tv_done"]

\* the statement after each git() call
AfterGit ==
    [gv_update   |-> "gv_branch",
     gv_branch   |-> "gv_validate",
     gv_latest   |-> "gv_bump",
     pm_update   |-> "pm_coMaster",
     pm_coMaster |-> "pm_write",
     pm_commit   |-> "pm_wait",
     pm_pushit   |-> "Published",
     tv_coMaster |-> "tv_branchD",
     tv_branchD  |-> "tv_tag",
     tv_tag      |-> "tv_pushtags",
     tv_pushtags |-> "tv_send"]

\* git(): os.Chdir(dir)
GitChdir(t) ==
    /\ Alive
    /\ Pc(t) \in GitPcs
    /\ phase[t] = "idle"
    /\ procDir' = GitCalls[Pc(t)].dir
    /\ phase' = [phase EXCEPT ![t] = "chdir"]
    /\ UNCHANGED <<optVars, topicOpt, cwd, modHead, siteFile, mainPc, bgPc, inflight, ran,
                   finished, failed, crashed, localVars, err, chanVars, fnVars>>

\* git(): exec.Command starts the child, which inherits the process's working directory
GitExec(t) ==
    /\ Alive
    /\ Pc(t) \in GitPcs
    /\ phase[t] = "chdir"
    /\ LET call == [cmd |-> GitCalls[Pc(t)].cmd, dir |-> GitCalls[Pc(t)].dir, in |-> procDir]
       IN  /\ inflight' = [inflight EXCEPT ![t] = call]
           /\ ran' = ran \cup {[by |-> t, cmd |-> call.cmd, dir |-> call.dir, in |-> call.in]}
    /\ phase' = [phase EXCEPT ![t] = "exec"]
    /\ UNCHANGED <<optVars, topicOpt, cwd, procDir, modHead, siteFile, mainPc, bgPc,
                   finished, failed, crashed, localVars, err, chanVars, fnVars>>

\* what a successful command may print
Outputs(call) ==
    IF call.cmd = gitCommands.branch
    THEN {(IF call.in = ModuleDir THEN modHead ELSE "master") \o "\n"}
    ELSE IF call.cmd = gitCommands.latest THEN TagOutputs
    ELSE {""}

\* git refuses to delete the branch that is checked out: that command cannot succeed
\* (whether the site repository has a branch of the topic's name is left open)
Refused(call) ==
    /\ Len(call.cmd) = 3
    /\ call.cmd[1] = "branch"
    /\ call.cmd[2] = "-d"
    /\ call.in = ModuleDir
    /\ call.cmd[3] = modHead

\* git(): CombinedOutput returns without error and git() returns out
GitOk(t) ==
    /\ Alive
    /\ Pc(t) \in GitPcs
    /\ phase[t] = "exec"
    /\ ~Refused(inflight[t])
    /\ finished' = finished \cup {[by |-> t, cmd |-> inflight[t].cmd,
                                  dir |-> inflight[t].dir, in |-> inflight[t].in]}
    /\ modHead' = IF inflight[t].cmd = gitCommands.coMaster /\ inflight[t].in = ModuleDir
                  THEN "master" ELSE modHead
    /\ phase' = [phase EXCEPT ![t] = "idle"]
    /\ inflight' = [inflight EXCEPT ![t] = NoCall]
    /\ IF t = "main"
       THEN /\ mainPc' = AfterGit[mainPc]
            /\ \E o \in Outputs(inflight[t]) : out' = o
            /\ UNCHANGED bgPc
       ELSE /\ bgPc' = AfterGit[bgPc]
            /\ UNCHANGED <<mainPc, out>>
    /\ UNCHANGED <<optVars, topicOpt, cwd, procDir, siteFile, ran, failed, crashed, currentBranch,
                   module, makefile, latest, newVersion, outFile, commitMsg, err, text, chanVars,
                   fnVars>>

GitFailKillsOnlyCaller(t) ==
    /\ Alive
    /\ Pc(t) \in GitPcs
    /\ phase[t] = "exec"
    /\ failed' = failed \cup {[by |-> t, cmd |-> inflight[t].cmd,
                              dir |-> inflight[t].dir, in |-> inflight[t].in]}
    /\ phase' = [phase EXCEPT ![t] = "idle"]
    /\ inflight' = [inflight EXCEPT ![t] = NoCall]
    /\ IF t = "main"
       THEN crashed' = TRUE /\ UNCHANGED bgPc
       ELSE bgPc' = "tv_dead" /\ UNCHANGED crashed
    /\ UNCHANGED <<optVars, topicOpt, cwd, procDir, modHead, siteFile, mainPc, ran,
                   finished, localVars, err, chanVars, fnVars>>

\* git(): CombinedOutput returns an error; git() prints the output and panics
\* (an unrecovered panic in any goroutine ends the process: one step with the return)
GitFail(t) ==
    /\ Alive
    /\ Pc(t) \in GitPcs
    /\ phase[t] = "exec"
    /\ failed' = failed \cup {[by |-> t, cmd |-> inflight[t].cmd,
                              dir |-> inflight[t].dir, in |-> inflight[t].in]}
    /\ crashed' = TRUE
    /\ UNCHANGED <<optVars, topicOpt, cwd, procDir, modHead, siteFile, mainPc, bgPc, phase,
                   inflight, ran, finished, localVars, err, chanVars, fnVars>>

\* getVersions: the branch/topic check on the trimmed output of the branch query
GvValidate ==
    /\ Alive
    /\ mainPc = "gv_validate"
    /\ currentBranch' = Trim(out, " \n\t\r")
    /\ IF TopicError(Trim(out, " \n\t\r"), topicOpt)
       THEN /\ err' = "topicMismatch"
            /\ mainPc' = "Failed"
            /\ UNCHANGED topicOpt
       ELSE /\ topicOpt' = ResolvedTopic(Trim(out, " \n\t\r"), topicOpt)
            /\ mainPc' = "gv_latest"
            /\ UNCHANGED err
    /\ UNCHANGED <<optVars, cwd, procDir, modHead, siteFile, bgPc, gitVars, crashed, out,
                   module, makefile, latest, newVersion, outFile, commitMsg, text,
                   chanVars, fnVars>>

\* getVersions: from the output of the latest-tag query to the returned versions
GvBump ==
    /\ Alive
    /\ mainPc = "gv_bump"
    /\ latest' = LatestOf(out)
    /\ IF BumpPanics(bumpOpt, Split(LatestOf(out), "."))
       THEN /\ crashed' = TRUE
            /\ UNCHANGED <<newVersion, mainPc>>
       ELSE /\ newVersion' = NewVersionOf(bumpOpt, LatestOf(out))
            /\ mainPc' = "confirm"
            /\ UNCHANGED crashed
    /\ UNCHANGED <<optVars, topicOpt, cwd, procDir, modHead, siteFile, bgPc, gitVars, out,
                   currentBranch, module, makefile, outFile, commitMsg, err, text, chanVars, fnVars>>

ConfirmAnything ==
    /\ Alive
    /\ mainPc = "confirm"
    /\ \E input \in StdinInputs : text' = Trim(ReadString(input), "\n")
    /\ mainPc' = "go"
    /\ UNCHANGED <<optVars, topicOpt, cwd, procDir, modHead, siteFile, bgPc, gitVars,
                   crashed, out, currentBranch, module, makefile, latest, newVersion, outFile,
                   commitMsg,
                   err, chanVars, fnVars>>

\* main: read the operator's answer; anything but "y" aborts
Confirm ==
    /\ Alive
    /\ mainPc = "confirm"
    /\ \E input \in StdinInputs :
         /\ text' = Trim(ReadString(input), "\n")
         /\ mainPc' = IF Trim(ReadString(input), "\n") # "y" THEN "Aborted" ELSE "go"
    /\ UNCHANGED <<optVars, topicOpt, cwd, procDir, modHead, siteFile, bgPc, gitVars,
                   crashed, out, currentBranch, module, makefile, latest, newVersion, outFile,
                   commitMsg,
                   err, chanVars, fnVars>>

\* main: go tagVersion(newVersion, taggingComplete)
Go ==
    /\ Alive
    /\ mainPc = "go"
    /\ bgPc' = "tv_start"
    /\ mainPc' = "getUpdatedMakefile"
    /\ UNCHANGED <<optVars, topicOpt, cwd, procDir, modHead, siteFile, gitVars, crashed,
                   localVars, err, chanVars, fnVars>>

\* tagVersion: clean up the topic branch unless the topic is master
TvStart ==
    /\ Alive
    /\ bgPc = "tv_start"
    /\ bgPc' = IF topicOpt # "master" THEN "tv_coMaster" ELSE "tv_tag"
    /\ UNCHANGED <<optVars, topicOpt, cwd, procDir, modHead, siteFile, mainPc, gitVars,
                   crashed, localVars, err, chanVars, fnVars>>

\* main: getUpdatedMakefile reads the makefile; then the commit message is formatted
getUpdatedMakefile ==
    /\ Alive
    /\ mainPc = "getUpdatedMakefile"
    /\ \E content \in Manifests :
         /\ siteFile' = content
         /\ outFile' = UpdatedLines(ScanLines(content), module, newVersion, latest)
         /\ IF ReplacedVersion(ScanLines(content), module, latest)
            THEN /\ commitMsg' = CommitMsg(topicOpt, module, newVersion)
                 /\ mainPc' = "pm_update"
                 /\ UNCHANGED err
            ELSE /\ err' = "entryNotFound"
                 /\ mainPc' = "Failed"
                 /\ UNCHANGED commitMsg
    /\ UNCHANGED <<optVars, topicOpt, cwd, procDir, modHead, bgPc, gitVars, crashed, out,
                   currentBranch, module, makefile, latest, newVersion, text, chanVars, fnVars>>

PmWriteNoReturn ==
    /\ Alive
    /\ mainPc = "pm_write"
    /\ \E ok \in BOOLEAN :
         IF ok
         THEN siteFile' = Join(outFile, "\n") /\ UNCHANGED err
         ELSE err' = "writeFailed" /\ UNCHANGED siteFile
    /\ mainPc' = "pm_commit"
    /\ UNCHANGED <<optVars, topicOpt, cwd, procDir, modHead, bgPc, gitVars, crashed,
                   localVars, chanVars, fnVars>>

\* pushUpdatedMakefile: ioutil.WriteFile of the joined lines
PmWrite ==
    /\ Alive
    /\ mainPc = "pm_write"
    /\ \E ok \in BOOLEAN :
         IF ok
         THEN /\ siteFile' = Join(outFile, "\n")
              /\ mainPc' = "pm_commit"
              /\ UNCHANGED err
         ELSE /\ err' = "writeFailed"
              /\ mainPc' = "Failed"
              /\ UNCHANGED siteFile
    /\ UNCHANGED <<optVars, topicOpt, cwd, procDir, modHead, bgPc, gitVars, crashed,
                   localVars, chanVars, fnVars>>

PmNoWait ==
    /\ Alive
    /\ mainPc = "pm_wait"
    /\ mainPc' = "pm_pushit"
    /\ UNCHANGED <<optVars, topicOpt, cwd, procDir, modHead, siteFile, bgPc, gitVars,
                   crashed, localVars, err, chanVars, fnVars>>

\* the unbuffered channel taggingComplete: tagVersion's send meets main's receive
TaggingComplete ==
    /\ Alive
    /\ bgPc = "tv_send"
    /\ mainPc = "pm_wait"
    /\ sent' = sent + 1
    /\ received' = received + 1
    /\ bgPc' = "tv_done"
    /\ mainPc' = "pm_pushit"
    /\ UNCHANGED <<optVars, topicOpt, cwd, procDir, modHead, siteFile, gitVars, crashed,
                   localVars, err, fnVars>>

Next ==
    \/ getModule
    \/ getMakefile
    \/ \E t \in Tasks : GitChdir(t)
    \/ \E t \in Tasks : GitExec(t)
    \/ \E t \in Tasks : GitOk(t)
    \/ \E t \in Tasks : GitFail(t)
    \/ GvValidate
    \/ GvBump
    \/ Confirm
    \/ Go
    \/ TvStart
    \/ getUpdatedMakefile
    \/ PmWrite
    \/ TaggingComplete

Spec == Init /\ [][Next]_vars

\* getUpdatedMakefile returns, with or without an error: the scanner loop ends with
\* the file. This is the move of main alone, whatever the file holds; a step of
\* getUpdatedMakefile is possible exactly when this one is.
getUpdatedMakefileReturns ==
    /\ Alive
    /\ mainPc = "getUpdatedMakefile"
    /\ mainPc' \in {"pm_update", "Failed"}
    /\ UNCHANGED <<optVars, topicOpt, cwd, procDir, modHead, siteFile, bgPc, gitVars, crashed,
                   localVars, err, chanVars, fnVars>>

\* the steps of the main goroutine from the launch of tagVersion on; the send and the
\* receive on taggingComplete are one step of both goroutines
MainStep ==
    \/ Go
    \/ getUpdatedMakefileReturns
    \/ GitChdir("main")
    \/ GitExec("main")
    \/ GitOk("main")
    \/ GitFail("main")
    \/ PmWrite
    \/ TaggingComplete

\* the steps of the tagVersion goroutine
BgStep ==
    \/ TvStart
    \/ GitChdir("bg")
    \/ GitExec("bg")
    \/ GitOk("bg")
    \/ GitFail("bg")
    \/ TaggingComplete

\* the Go scheduler runs every goroutine that stays runnable, and a started git child
\* returns; no fairness is assumed of the operator at the prompt
FairSpec == Init /\ [][Next]_vars /\ WF_vars(MainStep) /\ WF_vars(BgStep)

(***************************************************************************)
(* getVersions and getUpdatedMakefile as functions of their inputs         *)
(***************************************************************************)
\* the state of main at entry, with fixed flags: the run itself is not stepped
Parked ==
    /\ bumpOpt = "patch"
    /\ moduleOpt = "$PWD"
    /\ topicFlag = ""
    /\ topicOpt = ""
    /\ procDir = ModuleDir
    /\ modHead = "master"
    /\ AtEntry

mainVars == <<bumpOpt, moduleOpt, topicFlag, topicOpt, cwd, procDir, modHead, siteFile,
              mainPc, bgPc, phase, inflight, ran, finished, failed, crashed, out,
              currentBranch, module, makefile, latest, newVersion, outFile, commitMsg,
              err, text, sent, received>>

\* decimal numerals, written out: Numerals[n + 1] is the numeral of n
Numerals == <<"0", "1", "2", "3", "4", "5", "6", "7", "8", "9", "10", "11", "12", "13",
              "14", "15", "16", "17", "18", "19", "20">>

\* the output of the latest-tag query for the tag va.b.c
TagOutput(a, b, c) ==
    "v" \o Numerals[a + 1] \o "." \o Numerals[b + 1] \o "." \o Numerals[c + 1] \o "\n"

VersionsInit ==
    /\ Parked
    /\ arg \in [bump : BumpOpts, a : 0..MaxCol, b : 0..MaxCol, c : 0..MaxCol]
    /\ res = <<>>

\* getVersions from the latest-tag query on, for the tag and the bump of arg
ApplyGetVersions ==
    /\ res = <<>>
    /\ LET gitVer == TagOutput(arg.a, arg.b, arg.c)
       IN  res' = [newVersion |-> NewVersionOf(arg.bump, LatestOf(gitVer)),
                   latest     |-> LatestOf(gitVer),
                   err        |-> ""]
    /\ UNCHANGED <<mainVars, arg>>

SpecVersions == VersionsInit /\ [][ApplyGetVersions]_vars

\* columns a tag may be made of: numerals and text that is no numeral
TagColumns == {"1", "9", "x", "", "-1", "1a"}

\* the output of the latest-tag query for a tag of the given columns
TagOf(cols) == "v" \o Join(cols, ".") \o "\n"

TagsInit ==
    /\ Parked
    /\ arg \in [bump : BumpOpts, cols : [1..2 -> TagColumns] \cup [1..3 -> TagColumns]]
    /\ res = <<>>

\* getVersions from the latest-tag query on, for a tag of any columns: the switch
\* panics on a missing column, and otherwise the versions are returned with a nil error
ApplyGetVersionsOnTag ==
    /\ res = <<>>
    /\ LET gitVer == TagOf(arg.cols)
       IN  res' = IF BumpPanics(arg.bump, Split(LatestOf(gitVer), "."))
                  THEN [panics |-> TRUE, newVersion |-> "", latest |-> LatestOf(gitVer),
                        err |-> ""]
                  ELSE [panics |-> FALSE,
                        newVersion |-> NewVersionOf(arg.bump, LatestOf(gitVer)),
                        latest |-> LatestOf(gitVer), err |-> ""]
    /\ UNCHANGED <<mainVars, arg>>

SpecTags == TagsInit /\ [][ApplyGetVersionsOnTag]_vars

\* lines a site makefile is made of
ManifestLines ==
    {"projects[foo][download][tag] = \"v1.2.3\"",
     "; projects[foo][download][tag] = \"v1.2.3\"",
     "projects[bar][download][tag] = \"v1.2.3\"",
     "projects[foo][download][tag] = \"v1.2.4\"",
     "core = 7.x"}

LineSeqs == UNION {[1..n -> ManifestLines] : n \in 0..MaxLines}

RECURSIVE FileOf(_)
\* a file holding the given lines, each ended by a newline
FileOf(lines) == IF Len(lines) = 0 THEN "" ELSE lines[1] \o "\n" \o FileOf(Tail(lines))

MakefileInit ==
    /\ Parked
    /\ arg \in [content : {FileOf(l) : l \in LineSeqs}, module : {"foo"},
                newVersion : {"1.2.4"}, latest : {"1.2.3"}]
    /\ res = <<>>

\* getUpdatedMakefile on the makefile, module and versions of arg
ApplyGetUpdatedMakefile ==
    /\ res = <<>>
    /\ LET lines == ScanLines(arg.content)
       IN  res' = [outFile |-> UpdatedLines(lines, arg.module, arg.newVersion, arg.latest),
                   err     |-> IF ReplacedVersion(lines, arg.module, arg.latest)
                               THEN "" ELSE "entryNotFound"]
    /\ UNCHANGED <<mainVars, arg>>

\* the makefile on disk after the run: rewritten by pushUpdatedMakefile when
\* getUpdatedMakefile returned no error, untouched otherwise
FileAfterRun == IF res.err = "" THEN Join(res.outFile, "\n") ELSE arg.content

\* getUpdatedMakefile once more, with the same arguments, on the makefile the run left
ApplyGetUpdatedMakefileAgain ==
    /\ res # <<>>
    /\ "again" \notin DOMAIN res
    /\ LET lines == ScanLines(FileAfterRun)
       IN  res' = [outFile |-> res.outFile,
                   err     |-> res.err,
                   again   |-> [lines   |-> lines,
                                outFile |-> UpdatedLines(lines, arg.module, arg.newVersion,
                                                         arg.latest),
                                err     |-> IF ReplacedVersion(lines, arg.module, arg.latest)
                                            THEN "" ELSE "entryNotFound"]]
    /\ UNCHANGED <<mainVars, arg>>

MakefileNext == ApplyGetUpdatedMakefile \/ ApplyGetUpdatedMakefileAgain

SpecMakefile == MakefileInit /\ [][MakefileNext]_vars

(***************************************************************************)
(* Properties                                                              *)
(***************************************************************************)
\* a command whose arguments are cmd was started / has returned without error
Started(t, cmd) == \E r \in ran : r.by = t /\ r.cmd = cmd

Succeeded(t, cmd) == \E r \in finished : r.by = t /\ r.cmd = cmd

\* commands that change a repository or its remote
Mutating(cmd) == cmd[1] \in {"checkout", "branch", "tag", "push", "commit"}

\* positions of main after an affirmative answer
AfterConfirm ==
    {"go", "getUpdatedMakefile", "pm_update", "pm_coMaster", "pm_write", "pm_commit",
     "pm_wait", "pm_pushit", "Published"}

\* the prompt has been answered
Answered ==
    \/ mainPc \in AfterConfirm \cup {"Aborted"}
    \/ mainPc = "Failed" /\ err \in {"entryNotFound", "writeFailed"}

\* the branch/topic check has passed
Validated ==
    \/ mainPc \in {"gv_latest", "gv_bump", "confirm"}
    \/ Answered

\* C1: the site repo command "push origin master" is started only after
\* tagVersion's "push origin --tags" has returned without error; the site push
\* is never started while the tag push is unfinished or has failed.
C1_SitePushAfterTagPush ==
    (mainPc = "pm_pushit" \/ Started("main", gitCommands.pushit)) =>
        /\ Succeeded("bg", gitCommands.pushtags)
        /\ ~\E f \in failed : f.cmd = gitCommands.pushtags

C1_Witness == Started("main", gitCommands.pushit)

\* C2: no two git() calls are in progress at the same time: between one call's
\* os.Chdir and the return of its command, the other goroutine neither changes
\* the working directory nor runs a command.
C2_GitCallsSerialized == ~(phase["main"] # "idle" /\ phase["bg"] # "idle")

\* C3: every git command runs with the process working directory equal to the
\* directory passed to its git() call.
C3_RunsInOwnDirectory == \A r \in ran : r.in = r.dir

\* C4: when the run ends with a reported recoverable error, no mutating command
\* has been executed in either repository.
C4_NoMutationOnReportedError ==
    mainPc = "Failed" => \A r \in finished : ~Mutating(r.cmd)

C6_SignalReceivedExactlyOnce ==
    /\ received <= 1
    /\ (mainPc \in Terminal /\ ~crashed /\ bgPc \in {"tv_send", "tv_done"}) => received = 1

C8_BumpRule ==
    (res # <<>> /\ arg.bump \in {"major", "minor", "patch"}) =>
        LET A == Numerals[arg.a + 1]
            B == Numerals[arg.b + 1]
            C == Numerals[arg.c + 1]
        IN  /\ res.latest = A \o "." \o B \o "." \o C
            /\ arg.bump = "major" => res.newVersion = Numerals[arg.a + 2] \o ".0.0"
            /\ arg.bump = "minor" => res.newVersion = A \o "." \o Numerals[arg.b + 2] \o ".0"
            /\ arg.bump = "patch" =>
                  res.newVersion = A \o "." \o B \o "." \o Numerals[arg.c + 2]

C8_Witness ==
    /\ res # <<>>
    /\ arg = [bump |-> "minor", a |-> 1, b |-> 9, c |-> 3]
    /\ res.newVersion = "1.10.0"

\* C9: the branch/topic check fails exactly when (branch master and no topic)
\* or (topic given, different from the branch, branch not master); otherwise
\* the resolved topic is the given topic, or the branch when none was given.
C9_TopicValidation ==
    LET fails == \/ currentBranch = "master" /\ topicFlag = ""
                 \/ topicFlag # "" /\ topicFlag # currentBranch /\ currentBranch # "master"
    IN  /\ (mainPc = "Failed" /\ err = "topicMismatch") => fails
        /\ Validated =>
              /\ ~fails
              /\ topicOpt = IF topicFlag # "" THEN topicFlag ELSE currentBranch

C9_Witness ==
    /\ mainPc = "Failed"
    /\ err = "topicMismatch"
    /\ currentBranch = "NCAA-5"
    /\ topicFlag = "NCAA-9"

\* C10: when some line holds the search key, getUpdatedMakefile changes exactly
\* one line, the first matching one, and returns every other line unchanged.
C10_ExactlyOneLineRewritten ==
    (res # <<>> /\ res.err = "") =>
        LET lines == ScanLines(arg.content)
            first == CHOOSE i \in 1..Len(lines) :
                        /\ Contains(lines[i], SeekLine(arg.module, arg.latest))
                        /\ \A j \in 1..(i - 1) :
                              ~Contains(lines[j], SeekLine(arg.module, arg.latest))
        IN  /\ Len(res.outFile) = Len(lines)
            /\ res.outFile[first] = Replace(lines[first], arg.latest, arg.newVersion)
            /\ \A i \in 1..Len(lines) : i # first => res.outFile[i] = lines[i]


\* C11: when no line holds the search key, getUpdatedMakefile returns the
\* entry-not-found error with the original lines, unmodified and in order;
\* a second rewrite of an already rewritten makefile changes nothing.
C11_NotFoundReturnsOriginal ==
    /\ (res # <<>> /\ res.err = "entryNotFound") => res.outFile = ScanLines(arg.content)
    /\ (res # <<>> /\ "again" \in DOMAIN res) =>
          /\ res.again.err = "entryNotFound"
          /\ res.again.outFile = res.again.lines
          /\ res.again.lines = res.outFile

C11_Witness ==
    /\ res # <<>>
    /\ "again" \in DOMAIN res
    /\ res.err = "entryNotFound"
    /\ Contains(arg.content, SeekLine("foo", "1.2.4"))
    /\ Contains(arg.content, SeekLine("bar", "1.2.3"))
    /\ Len(res.outFile) = 3

\* C12: when writing the makefile fails, pushUpdatedMakefile returns the write
\* error, the site commit and the site push are never run, and main never
\* waits for (or receives) the completion signal.
C12_WriteFailureStopsSitePublish ==
    err = "writeFailed" =>
        /\ mainPc = "Failed"
        /\ phase["main"] = "idle"
        /\ received = 0
        /\ \A r \in ran : r.cmd[1] # "commit" /\ r.cmd # gitCommands.pushit

C12_Witness ==
    /\ err = "writeFailed"
    /\ bgPc = "tv_send"
    /\ Succeeded("main", gitCommands.coMaster)

\* the topic the run resolved: the one given, else the branch
TopicOfRun == IF topicFlag # "" THEN topicFlag ELSE currentBranch

\* C13 (as claimed): the message passed to the site commit is exactly
\* "<resolved topic> <module> -> <newVersion>", nothing before or after it.
C13_CommitMessageExact ==
    \A r \in ran :
        r.cmd[1] = "commit" =>
            r.cmd = <<"commit", siteMakeOpt, "-m",
                      TopicOfRun \o " " \o module \o " -> " \o newVersion>>

\* C13 (amended): the message passed to the site commit is a newline followed
\* by exactly "<resolved topic> <module> -> <newVersion>", nothing after it.
C13_CommitMessageAfterNewline ==
    \A r \in ran :
        r.cmd[1] = "commit" =>
            r.cmd = <<"commit", siteMakeOpt, "-m",
                      "\n" \o TopicOfRun \o " " \o module \o " -> " \o newVersion>>

C13_Witness ==
    \E r \in ran :
        /\ r.cmd[1] = "commit"
        /\ r.cmd[4] = "\nNCAA-5 foo -> 1.3.0"
        /\ topicFlag = ""

\* C14: whenever tagVersion's tag command has taken effect, the module
\* repository is checked out to master: the topic is master, or a successful
\* "checkout master" in the module repository came before the tag.
C14_TagOnMaster ==
    (\E r \in finished : r.by = "bg" /\ r.cmd[1] = "tag") =>
        /\ modHead = "master"
        /\ topicOpt # "master" =>
              \E c \in finished :
                 c.by = "bg" /\ c.cmd = gitCommands.coMaster /\ c.in = ModuleDir

\* C15: under fair scheduling, once the operator has answered "y" the run reaches
\* Published with the completion signal sent and received and the site push done,
\* unless a git command fails, the manifest has no matching line or the write fails.
C15_ConfirmedRunPublishes ==
    (mainPc = "go") ~>
        \/ /\ mainPc = "Published"
           /\ bgPc = "tv_done"
           /\ sent = 1
           /\ received = 1
           /\ Succeeded("main", gitCommands.pushit)
        \/ failed # {}
        \/ err \in {"entryNotFound", "writeFailed"}

\* a published run that took the cleanup path, every git command having succeeded
C15_Witness ==
    /\ mainPc = "Published"
    /\ failed = {}
    /\ topicOpt # "master"
    /\ Succeeded("bg", <<"branch", "-d", topicOpt>>)
    /\ received = 1

\* the git() calls of pushUpdatedMakefile
SiteStarted(cmd) == \E r \in ran : r.by = "main" /\ r.dir = siteRepoOpt /\ r.cmd = cmd

SiteSucceeded(cmd) == \E r \in finished : r.by = "main" /\ r.dir = siteRepoOpt /\ r.cmd = cmd

SiteCommit == <<"commit", siteMakeOpt, "-m", commitMsg>>

\* C16: pushUpdatedMakefile goes through update, checkout master, write, commit, wait,
\* push in that order: each step starts only after the one before it succeeded; the
\* receive comes after the commit and before the push; at every other position the
\* main goroutine can move whatever tagVersion does; the push starts only after
\* tagVersion's tag and tag push.
C16_SitePublishOrder ==
    /\ SiteStarted(gitCommands.update) => mainPc \notin {"getModule", "getMakefile", "confirm", "go"}
    /\ SiteStarted(gitCommands.coMaster) => SiteSucceeded(gitCommands.update)
    /\ mainPc = "pm_write" => SiteSucceeded(gitCommands.coMaster) /\ ~SiteStarted(SiteCommit)
    /\ SiteStarted(SiteCommit) =>
          /\ SiteSucceeded(gitCommands.coMaster)
          /\ siteFile = Join(outFile, "\n")
    /\ mainPc = "pm_wait" => SiteSucceeded(SiteCommit) /\ received = 0
    /\ received > 0 => SiteSucceeded(SiteCommit)
    /\ SiteStarted(gitCommands.pushit) =>
          /\ SiteSucceeded(SiteCommit)
          /\ received = 1
          /\ Succeeded("bg", <<"tag", "v" \o newVersion>>)
          /\ Succeeded("bg", gitCommands.pushtags)
    /\ (Alive /\ mainPc \in {"pm_update", "pm_coMaster", "pm_write", "pm_commit", "pm_pushit"}) =>
          ENABLED (\/ GitChdir("main") \/ GitExec("main") \/ GitOk("main")
                   \/ GitFail("main") \/ PmWrite)

\* the site commit is done and main waits while tagVersion has not created the tag yet
C16_Witness ==
    /\ mainPc = "pm_wait"
    /\ SiteSucceeded(SiteCommit)
    /\ ~Started("bg", <<"tag", "v" \o newVersion>>)

\* the state of the orchestrator main is in at a position: 0 Init, 1 ModuleResolved,
\* 2 MakefileLocated (getVersions running), 3 VersionResolved and AwaitingConfirmation,
\* 4 Releasing, 5 Published
Stage(pc) ==
    CASE pc = "getModule" -> 0
      [] pc = "getMakefile" -> 1
      [] pc \in {"gv_update", "gv_branch", "gv_validate", "gv_latest", "gv_bump"} -> 2
      [] pc = "confirm" -> 3
      [] pc \in {"go", "getUpdatedMakefile", "pm_update", "pm_coMaster", "pm_write",
                 "pm_commit", "pm_wait", "pm_pushit"} -> 4
      [] pc = "Published" -> 5
      [] OTHER -> 6

\* C17: main moves forward one state at a time and only on success: getMakefile after
\* getModule succeeded, getVersions after getMakefile succeeded, the prompt after
\* getVersions succeeded, tagVersion launched after the answer "y"; an error returned by
\* a step puts main in Failed at once; nothing happens after Published, Aborted or Failed.
C17_ForwardOnly ==
    /\ [](/\ (err # "") <=> (mainPc = "Failed")
          /\ Stage(mainPc) \in 1..5 => module # ""
          /\ Stage(mainPc) \in 2..5 => makefile # ""
          /\ ran # {} => makefile # "" /\ module # ""
          /\ (Stage(mainPc) \in 3..5 \/ mainPc = "Aborted") =>
                /\ Succeeded("main", gitCommands.latest)
                /\ ~TopicError(currentBranch, topicFlag)
                /\ newVersion # ""
          /\ (Stage(mainPc) \in 4..5 \/ bgPc # "none") => text = "y"
          /\ mainPc = "Published" => Succeeded("main", gitCommands.pushit))
    /\ [][/\ mainPc \in Terminal => UNCHANGED vars
          /\ mainPc' # mainPc =>
                \/ Stage(mainPc') = Stage(mainPc)
                \/ Stage(mainPc') = Stage(mainPc) + 1
                \/ mainPc' = "Failed" /\ err' # ""
                \/ mainPc' = "Aborted" /\ mainPc = "confirm" /\ text' # "y"
          /\ err' # err => mainPc' = "Failed" /\ err = ""]_vars

\* a run that failed while releasing: the manifest write failed after tagVersion started
C17_Witness ==
    /\ mainPc = "Failed"
    /\ err = "writeFailed"
    /\ bgPc \notin {"none", "tv_start"}

\* the column of the tag the bump selects
SelectedColumn ==
    arg.cols[CASE arg.bump = "major" -> 1 [] arg.bump = "minor" -> 2 [] OTHER -> 3]

\* C18: when the column the bump selects is not a non-negative integer, getVersions
\* fails (an error or a panic) and returns no new version.
C18_MalformedColumnIsFatal ==
    (/\ res # <<>>
     /\ arg.bump \in {"major", "minor", "patch"}
     /\ Len(arg.cols) = 3
     /\ ~(AtoiOk(SelectedColumn) /\ Atoi(SelectedColumn) >= 0)) =>
        /\ res.panics \/ res.err # ""
        /\ res.newVersion = ""

\* C19: with a bump option other than major, minor and patch, getVersions returns the
\* current version as the new version and no error, main goes on to the prompt, and a
\* confirmed run asks git for the tag v<current version>.
C19_UnknownBumpKeepsVersion ==
    /\ [](bumpOpt \notin {"major", "minor", "patch"} =>
            /\ Stage(mainPc) \in 3..5 => newVersion = latest /\ latest # ""
            /\ \A r \in ran : r.cmd[1] = "tag" => r.cmd = <<"tag", "v" \o latest>> /\ text = "y")
    /\ [][(bumpOpt \notin {"major", "minor", "patch"} /\ mainPc = "gv_bump") =>
            /\ mainPc' = "confirm"
            /\ latest' = LatestOf(out)
            /\ newVersion' = latest'
            /\ err' = ""
            /\ ~crashed']_vars

C19_Witness ==
    /\ bumpOpt = "build"
    /\ latest = "1.2.3"
    /\ \E r \in ran : r.by = "bg" /\ r.cmd = <<"tag", "v1.2.3">>

=============================================================================
